---- MODULE Spec2Model ----
(***************************************************************************)
(* Model of the video playback function (src/__init__.py): the HTTP entry  *)
(* point main, the playback monitor wait_for_video_end it calls once per   *)
(* run, and log_to_blob.                                                   *)
(*                                                                         *)
(* Numbers that come from the page (currentTime, duration) and the floats  *)
(* derived from them are kept in thousandths of a second: 12300 is 12.3 s. *)
(* A value is a pair <<kind, n>>; n is 0 for every kind but "num".         *)
(* The page is not under the program's control: every probe call samples   *)
(* whatever the page holds at that moment, so each probe action draws the  *)
(* fields it reads from the sets below.                                    *)
(* The records' start_time and end_time (wall-clock reads that nothing in  *)
(* the program branches on) are left out of the record.                    *)
(***************************************************************************)
EXTENDS Integers, Sequences, FiniteSets, TLC

\* ---------------------------------------------------------------- bounds
MaxRuns == 2
MaxWait == 2

\* ------------------------------------------------------ program constants
DefaultRuns == 5
DefaultMaxWait == 600

\* ------------------------------------------------------------ value kinds
Num(x) == <<"num", x>>
NaN == <<"nan", 0>>
Infinity == <<"inf", 0>>
Undefined == <<"undef", 0>>
Null == <<"null", 0>>

\* JavaScript truthiness of a value read from the element.
Truthy(v) == \/ v[1] = "inf"
             \/ (v[1] = "num" /\ v[2] # 0)

\* JavaScript a || b.
JsOr(a, b) == IF Truthy(a) THEN a ELSE b

\* JavaScript isFinite(v).
IsFinite(v) == v[1] = "num"

\* What the page can hold.  currentTime of a media element is a finite
\* number >= 0 (undefined when the matched element is no media element);
\* duration is NaN before metadata, Infinity for a stream, else >= 0.
Selectors == {"video", "#player"}
PosValues == {Undefined, Num(0), Num(4), Num(12300)}
DurValues == {NaN, Infinity, Num(0), Num(12345)}
Failures == {"TargetClosedError", "EvaluateError"}

\* ------------------------------------------------- the page expressions
\* lines 23-26: v ? (isFinite(v.duration) ? v.duration : -1) : -1
JsDuration(present, dur) ==
    IF present THEN (IF IsFinite(dur) THEN dur ELSE Num(-1000)) ELSE Num(-1000)

\* The mutant of JsStarted: the catch block of the page expression returns
\* true as well.
JsStartedUnguarded(present, throws, rejects) == present

\* The mutant of JsStarted: the promise is awaited, so a later rejection
\* lands in the catch block and the expression returns false.
JsStartedAwaited(present, throws, rejects) == present /\ ~throws /\ ~rejects

\* The mutant of JsStarted: a missing element does not stop the call,
\* if (!v) return true.
JsStartedFailOpen(present, throws, rejects) == IF present THEN ~throws ELSE TRUE

\* lines 28-40: false when the element is gone or play() throws, else true.
\* A promise that play() returns is given a catch handler and not awaited
\* (lines 32-36), so whether it rejects later does not enter the result.
JsStarted(present, throws, rejects) == present /\ ~throws

\* The mutant of JsEnded: v ? !!v.ended : false, a missing element is not
\* ended.
JsEndedFailClosed(present, ended) == present /\ ended

\* lines 50-53: v ? !!v.ended : true
JsEnded(present, ended) == IF present THEN ended ELSE TRUE

\* The mutant of JsPlayed: -1 stands for a missing element, as in the
\* duration expression.
JsPlayedSentinel(present, pos, dur) ==
    IF ~present THEN Num(-1000) ELSE JsOr(JsOr(pos, dur), Num(-1000))

\* The mutant of JsPlayed: ?? where the expression has ||.
JsPlayedNullish(present, pos, dur) ==
    IF ~present THEN Null
    ELSE IF pos # Undefined THEN pos
    ELSE dur

\* lines 55-59: if (!v) return null; return v.currentTime || v.duration || null
JsPlayed(present, pos, dur) ==
    IF ~present THEN Null ELSE JsOr(JsOr(pos, dur), Null)

\* line 60: float(played) if played is not None else None
PyDuration(played) == IF played = Null THEN Null ELSE played

\* The mutant of MaxWaitOf: a bound of 0 is taken as given.
MaxWaitOfNonNegative(max_wait_seconds) ==
    IF max_wait_seconds >= 0 THEN max_wait_seconds ELSE DefaultMaxWait

\* line 48: int(max_wait_seconds if max_wait_seconds > 0 else 600)
MaxWaitOf(max_wait_seconds) ==
    IF max_wait_seconds > 0 THEN max_wait_seconds ELSE DefaultMaxWait

\* The mutant of LoopContinues: the bound is included.
LoopContinuesInclusive(e, bound) == e <= bound

\* line 49: while elapsed < max_wait
LoopContinues(e, bound) == e < bound

\* The mutant of NoteNoVideo: the note names the default selector.
NoteNoVideoDefault(selector) == <<"No element matching selector '", "video", "' found.">>

\* ------------------------------------------------------------- the notes
\* Notes are f-strings: the fixed text and the interpolated values in order.
NoteNoVideo(selector) == <<"No element matching selector '", selector, "' found.">>
NotePlayFailed == <<"video element exists but play() could not start (autoplay blocked?).">>
NotePlayed == <<"Video ended normally.">>
NoteTimeout(max_wait) == <<"Timed out after ", max_wait, " seconds waiting for video to end.">>
NoteError(e) == <<"Exception while waiting for video end: ", e>>

\* The four return statements and the except clause of wait_for_video_end.
RetNoVideo(selector) == [status |-> "no_video", duration |-> Null, note |-> NoteNoVideo(selector)]
RetPlayFailed == [status |-> "play_failed", duration |-> Null, note |-> NotePlayFailed]
RetPlayed(played) == [status |-> "played", duration |-> PyDuration(played), note |-> NotePlayed]
RetTimeout(max_wait) == [status |-> "timeout", duration |-> Null, note |-> NoteTimeout(max_wait)]
RetError(e) == [status |-> "error", duration |-> Null, note |-> NoteError(e)]

NoRet == [status |-> "none", duration |-> Null, note |-> <<>>]

\* --------------------------------------------------------------- main
\* line 87: int(req.params.get('runs', 5)); "bad" is text int() rejects.
\* The requests explored state their runs; one without the parameter runs
\* DefaultRuns trials.
Absent == <<"absent", 0>>
RunsParams == {<<"bad", 0>>} \cup {<<"int", n>> : n \in (-1)..MaxRuns}
RunsOf(p) == IF p = Absent THEN DefaultRuns ELSE p[2]

\* Python truthiness of the monitor's duration (None and 0.0 are falsy).
PyTruthy(d) == d # Null /\ ~(d[1] = "num" /\ d[2] = 0)

\* round(duration, 2): the hundredths nearest to the float.  A decimal that
\* ends in 5 thousandths is no exact binary float, so the stored value lies
\* just below or just above the tie and either neighbour can result.
Round2(d) ==
    IF d[1] # "num" THEN {d}
    ELSE LET r == d[2] % 10
             lo == d[2] - r
         IN  IF r < 5 THEN {Num(lo)}
             ELSE IF r > 5 THEN {Num(lo + 10)}
             ELSE {Num(lo), Num(lo + 10)}

\* line 106: round(duration, 2) if duration else None
DurationSec(d) == IF PyTruthy(d) THEN Round2(d) ELSE {Null}

\* The mutant of TrialRecord: the run index is the loop variable itself.
TrialRecordZeroBased(index, r, dsec) ==
    [run |-> index, duration_sec |-> dsec, status |-> r.status, note |-> r.note]

\* lines 102-109
TrialRecord(index, r, dsec) ==
    [run |-> index + 1, duration_sec |-> dsec, status |-> r.status, note |-> r.note]

NoResponse == [status_code |-> 0, kind |-> "none", body |-> <<>>]
\* line 90
Response400 == [status_code |-> 400, kind |-> "text", body |-> <<"No URL provided">>]
\* line 112
Response500(e) == [status_code |-> 500, kind |-> "text", body |-> <<"Error running Playwright: ", e>>]
\* line 117: str(results)
Response200(rs) == [status_code |-> 200, kind |-> "list", body |-> rs]

VARIABLES
    url,               \* req.params.get('url') is non-empty
    runsParam,         \* req.params 'runs'
    VIDEO_SELECTOR,
    MAX_WAIT_SECONDS,
    BLOB_CONN_STR,     \* TRUE when the connection string is configured
    pc,                \* control point of main / wait_for_video_end
    runs,
    i,                 \* the loop variable of main: trials finished so far
    results,
    response,          \* what main returned; raised = it raised instead
    raised,
    duration,          \* locals of wait_for_video_end
    elapsed,
    max_wait,
    ret,               \* the tuple wait_for_video_end returned
    \* What the current monitor call met on the page, kept until the next call:
    exists,            \* the existence check: "unset", "yes" or "no"
    playCall,          \* play: "unset", "accepted", "threw" or "absent"
    ops,               \* probe calls and sleeps made
    firstEnded,        \* sleeps done when a poll first saw ended, else -1
    raisedAt,          \* <<the probe call that raised, its failure>>
    seen,              \* what the position read-back saw on the page
    lastPoll,          \* what the last ended poll of the running call met:
                       \* "unset", "running", "ended" or "absent"
    rejected,          \* the promise of the running call's play() rejects later
    entered,           \* monitor calls begun in this run
    calls,             \* one entry per finished monitor call of this run
    blob,              \* the text uploaded to the container, if any
    logCalls,          \* calls of log_to_blob in this run
    warned             \* log_to_blob caught a failure and logged the warning

vars == <<url, runsParam, VIDEO_SELECTOR, MAX_WAIT_SECONDS, BLOB_CONN_STR, pc,
          runs, i, results, response, raised, duration, elapsed, max_wait, ret,
          exists, playCall, ops, firstEnded, raisedAt, seen, lastPoll, rejected,
          entered, calls, blob, logCalls, warned>>

config == <<url, runsParam, VIDEO_SELECTOR, MAX_WAIT_SECONDS, BLOB_CONN_STR>>
locals == <<duration, elapsed, max_wait>>
history == <<exists, playCall, ops, firstEnded, raisedAt, seen>>
logging == <<blob, logCalls, warned>>
pending == <<lastPoll, rejected>>

NoOps == [query |-> 0, dur |-> 0, play |-> 0, poll |-> 0, sleep |-> 0, read |-> 0]
NotSeen == [present |-> FALSE, pos |-> Undefined, dur |-> NaN, read |-> FALSE]
NotRaised == <<"none", "none">>

Bump(o, f) == [o EXCEPT ![f] = @ + 1]

InitWith(waits, params, selectors, conns) ==
    /\ url \in BOOLEAN
    /\ runsParam \in params
    /\ VIDEO_SELECTOR \in selectors
    /\ MAX_WAIT_SECONDS \in waits
    /\ BLOB_CONN_STR \in conns
    /\ pc = "start"
    /\ runs = 0
    /\ i = 0
    /\ results = <<>>
    /\ response = NoResponse
    /\ raised = FALSE
    /\ duration = Null
    /\ elapsed = 0
    /\ max_wait = 0
    /\ ret = NoRet
    /\ exists = "unset"
    /\ playCall = "unset"
    /\ ops = NoOps
    /\ firstEnded = -1
    /\ raisedAt = NotRaised
    /\ seen = NotSeen
    /\ lastPoll = "unset"
    /\ rejected = FALSE
    /\ entered = 0
    /\ calls = <<>>
    /\ blob = <<>>
    /\ logCalls = 0
    /\ warned = FALSE

\* A request that states its runs, the wait bound configured small.
Init == InitWith(1..MaxWait, RunsParams, Selectors, BOOLEAN)

\* lines 86-90: runs is parsed before the url is looked at.
ParseRequest ==
    /\ pc = "start"
    /\ IF runsParam[1] = "bad"
       THEN /\ raised' = TRUE
            /\ pc' = "done"
            /\ UNCHANGED <<runs, response>>
       ELSE /\ runs' = RunsOf(runsParam)
            /\ raised' = FALSE
            /\ IF ~url
               THEN /\ response' = Response400
                    /\ pc' = "done"
               ELSE /\ response' = response
                    /\ pc' = "launch"
    /\ UNCHANGED <<config, i, results, locals, ret, history, calls, logging, pending, entered>>

\* lines 94-96: sync_playwright(), chromium.launch, new_page
LaunchBrowser ==
    /\ pc = "launch"
    /\ pc' = "goto"
    /\ UNCHANGED <<config, runs, i, results, response, raised, locals, ret, history, calls, logging, pending, entered>>

\* line 97
Goto ==
    /\ pc = "goto"
    /\ pc' = "loop"
    /\ UNCHANGED <<config, runs, i, results, response, raised, locals, ret, history, calls, logging, pending, entered>>

\* line 98: for i in range(runs); line 100 enters wait_for_video_end with
\* the module's selector and wait bound.
LoopHead ==
    /\ pc = "loop"
    /\ IF i < runs
       THEN /\ pc' = "query"
            /\ entered' = entered + 1
       ELSE /\ pc' = "close"
            /\ entered' = entered
    /\ exists' = "unset"
    /\ playCall' = "unset"
    /\ ops' = NoOps
    /\ firstEnded' = -1
    /\ raisedAt' = NotRaised
    /\ seen' = NotSeen
    /\ ret' = NoRet
    /\ UNCHANGED <<config, runs, i, results, response, raised, locals, pending, calls, logging>>

\* The monitor's frame ends: its locals are gone.
Return(r) ==
    /\ ret' = r
    /\ pc' = "append"
    /\ duration' = Null
    /\ elapsed' = 0
    /\ max_wait' = 0
    /\ lastPoll' = "unset"
    /\ rejected' = FALSE

\* lines 19-21
QuerySelector ==
    /\ pc = "query"
    /\ ops' = Bump(ops, "query")
    /\ \E present \in BOOLEAN :
         IF ~present
         THEN /\ exists' = "no"
              /\ Return(RetNoVideo(VIDEO_SELECTOR))
         ELSE /\ exists' = "yes"
              /\ pc' = "duration"
              /\ UNCHANGED <<locals, pending, ret>>
    /\ UNCHANGED <<config, runs, i, results, response, raised, playCall, firstEnded, raisedAt,
                   seen, entered, calls, logging>>

\* The mutant of DurationRead: a duration that is not known ends the call.
DurationReadStrict ==
    /\ pc = "duration"
    /\ ops' = Bump(ops, "dur")
    /\ \E present \in BOOLEAN, dur \in DurValues :
         IF JsDuration(present, dur) = Num(-1000)
         THEN Return(RetPlayFailed)
         ELSE /\ duration' = JsDuration(present, dur)
              /\ pc' = "play"
              /\ UNCHANGED <<elapsed, max_wait, ret, pending>>
    /\ UNCHANGED <<config, runs, i, results, response, raised,
                   exists, playCall, firstEnded, raisedAt, seen, entered, calls,
                   logging>>

\* lines 23-26
DurationRead ==
    /\ pc = "duration"
    /\ ops' = Bump(ops, "dur")
    /\ \E present \in BOOLEAN, dur \in DurValues :
         duration' = JsDuration(present, dur)
    /\ pc' = "play"
    /\ UNCHANGED <<config, runs, i, results, response, raised, elapsed, max_wait, ret,
                   exists, playCall, firstEnded, raisedAt, seen, pending, entered, calls,
                   logging>>

\* lines 28-48
PlayEval ==
    /\ pc = "play"
    /\ ops' = Bump(ops, "play")
    /\ \E present \in BOOLEAN, throws \in BOOLEAN, rejects \in BOOLEAN :
         /\ playCall' = IF ~present THEN "absent" ELSE IF throws THEN "threw" ELSE "accepted"
         /\ IF ~JsStarted(present, throws, rejects)
            THEN Return(RetPlayFailed)
            ELSE /\ elapsed' = 0
                 /\ max_wait' = MaxWaitOf(MAX_WAIT_SECONDS)
                 /\ rejected' = rejects
                 /\ pc' = "while"
                 /\ UNCHANGED <<duration, lastPoll, ret>>
    /\ UNCHANGED <<config, runs, i, results, response, raised, exists, firstEnded, raisedAt,
                   seen, entered, calls, logging>>

\* The mutant of WhileTest: the loop body sleeps before it polls.
WhileTestSleepsFirst ==
    /\ pc = "while"
    /\ IF LoopContinues(elapsed, max_wait)
       THEN /\ pc' = IF ops.sleep = ops.poll THEN "sleep" ELSE "poll"
            /\ UNCHANGED <<locals, pending, ret>>
       ELSE Return(RetTimeout(max_wait))
    /\ UNCHANGED <<config, runs, i, results, response, raised, history, entered, calls, logging>>

\* lines 49 and 64
WhileTest ==
    /\ pc = "while"
    /\ IF LoopContinues(elapsed, max_wait)
       THEN /\ pc' = "poll"
            /\ UNCHANGED <<locals, pending, ret>>
       ELSE Return(RetTimeout(max_wait))
    /\ UNCHANGED <<config, runs, i, results, response, raised, history, entered, calls, logging>>

\* The mutant of EndedPoll: the first sample is never acted on, an ended
\* sample stops the loop only after a sleep has gone by.
EndedPollSkipsFirst ==
    /\ pc = "poll"
    /\ ops' = Bump(ops, "poll")
    /\ \E present \in BOOLEAN, ended \in BOOLEAN :
         /\ lastPoll' = IF ~present THEN "absent" ELSE IF ended THEN "ended" ELSE "running"
         /\ IF JsEnded(present, ended) /\ ops.sleep > 0
            THEN /\ pc' = "readback"
                 /\ firstEnded' = ops.sleep
            ELSE /\ pc' = "sleep"
                 /\ firstEnded' = firstEnded
    /\ UNCHANGED <<config, runs, i, results, response, raised, locals, ret, exists, playCall,
                   raisedAt, seen, rejected, entered, calls, logging>>

\* lines 50-54
EndedPoll ==
    /\ pc = "poll"
    /\ ops' = Bump(ops, "poll")
    /\ \E present \in BOOLEAN, ended \in BOOLEAN :
         /\ lastPoll' = IF ~present THEN "absent" ELSE IF ended THEN "ended" ELSE "running"
         /\ IF JsEnded(present, ended)
            THEN /\ pc' = "readback"
                 /\ firstEnded' = ops.sleep
            ELSE /\ pc' = "sleep"
                 /\ firstEnded' = firstEnded
    /\ UNCHANGED <<config, runs, i, results, response, raised, locals, ret, exists, playCall,
                   raisedAt, seen, rejected, entered, calls, logging>>

\* lines 55-60
PositionRead ==
    /\ pc = "readback"
    /\ ops' = Bump(ops, "read")
    /\ \E present \in BOOLEAN, pos \in PosValues, dur \in DurValues :
         /\ seen' = [present |-> present, pos |-> pos, dur |-> dur, read |-> TRUE]
         /\ Return(RetPlayed(JsPlayed(present, pos, dur)))
    /\ UNCHANGED <<config, runs, i, results, response, raised, exists, playCall, firstEnded,
                   raisedAt, entered, calls, logging>>

\* The mutant of Sleep: the second slept is not added to elapsed.
SleepNoTick ==
    /\ pc = "sleep"
    /\ ops' = Bump(ops, "sleep")
    /\ pc' = "while"
    /\ UNCHANGED <<config, runs, i, results, response, raised, locals, ret,
                   exists, playCall, firstEnded, raisedAt, seen, pending, entered, calls,
                   logging>>

\* lines 61-62
Sleep ==
    /\ pc = "sleep"
    /\ ops' = Bump(ops, "sleep")
    /\ elapsed' = elapsed + 1
    /\ pc' = "while"
    /\ UNCHANGED <<config, runs, i, results, response, raised, duration, max_wait, ret,
                   exists, playCall, firstEnded, raisedAt, seen, pending, entered, calls,
                   logging>>

ProbeOp(p) == CASE p = "query" -> "query"
                [] p = "duration" -> "dur"
                [] p = "play" -> "play"
                [] p = "poll" -> "poll"
                [] p = "readback" -> "read"

\* The mutant of ProbeRaises: the failure leaves the monitor and reaches the
\* except clause of main.
ProbeRaisesUncaught ==
    /\ pc \in {"query", "duration", "play", "poll", "readback"}
    /\ ops' = Bump(ops, ProbeOp(pc))
    /\ \E e \in Failures :
         /\ raisedAt' = <<pc, e>>
         /\ response' = Response500(e)
    /\ pc' = "done"
    /\ UNCHANGED <<config, runs, i, results, raised, locals, ret, exists, playCall, firstEnded,
                   seen, pending, entered, calls, logging>>

\* lines 18 and 65-66: a probe call of the monitor raises.
ProbeRaises ==
    /\ pc \in {"query", "duration", "play", "poll", "readback"}
    /\ ops' = Bump(ops, ProbeOp(pc))
    /\ \E e \in Failures :
         /\ raisedAt' = <<pc, e>>
         /\ Return(RetError(e))
    /\ UNCHANGED <<config, runs, i, results, response, raised, exists, playCall, firstEnded,
                   seen, entered, calls, logging>>

\* The mutant of AppendRecord: a trial that ended in timeout or error is
\* not recorded, the loop runs the monitor for it again.
AppendRecordRetry ==
    /\ pc = "append"
    /\ IF ret.status \in {"timeout", "error"}
       THEN UNCHANGED <<results, calls, i>>
       ELSE /\ \E dsec \in DurationSec(ret.duration) :
                 results' = Append(results, TrialRecord(i, ret, dsec))
            /\ calls' = Append(calls, [exists |-> exists, playCall |-> playCall,
                                       raised |-> raisedAt # NotRaised, ret |-> ret])
            /\ i' = i + 1
    /\ pc' = "loop"
    /\ UNCHANGED <<config, runs, response, raised, locals, ret, history, logging, pending, entered>>

\* lines 99-109
AppendRecord ==
    /\ pc = "append"
    /\ \E dsec \in DurationSec(ret.duration) :
         results' = Append(results, TrialRecord(i, ret, dsec))
    /\ calls' = Append(calls, [exists |-> exists, playCall |-> playCall,
                               raised |-> raisedAt # NotRaised, ret |-> ret])
    /\ i' = i + 1
    /\ pc' = "loop"
    /\ UNCHANGED <<config, runs, response, raised, locals, ret, history, logging, pending, entered>>

\* line 110, and leaving the with block of line 94
CloseBrowser ==
    /\ pc = "close"
    /\ pc' = "log"
    /\ UNCHANGED <<config, runs, i, results, response, raised, locals, ret, history, calls, logging, pending, entered>>

\* The mutant of RunLevelFailure: the except clause answers with the
\* records gathered so far.
RunLevelFailurePartial ==
    /\ pc \in {"launch", "goto", "close"}
    /\ response' = Response200(results)
    /\ pc' = "done"
    /\ UNCHANGED <<config, runs, i, results, raised, locals, ret, history, calls, logging, pending, entered>>

\* lines 93 and 111-112: launching, navigating or closing raises.
RunLevelFailure ==
    /\ pc \in {"launch", "goto", "close"}
    /\ \E e \in Failures : response' = Response500(e)
    /\ pc' = "done"
    /\ UNCHANGED <<config, runs, i, results, raised, locals, ret, history, calls, logging, pending, entered>>

\* The mutant of LogToBlob: the upload is not inside a try block, its
\* failure leaves main and the host answers 500.
LogToBlobUnguarded ==
    /\ pc = "log"
    /\ logCalls' = logCalls + 1
    /\ warned' = FALSE
    /\ IF ~BLOB_CONN_STR
       THEN /\ blob' = blob
            /\ response' = response
            /\ pc' = "respond"
       ELSE \E ok \in BOOLEAN :
              IF ok
              THEN /\ blob' = results
                   /\ response' = response
                   /\ pc' = "respond"
              ELSE /\ blob' = blob
                   /\ \E e \in Failures : response' = Response500(e)
                   /\ pc' = "done"
    /\ UNCHANGED <<config, runs, i, results, raised, locals, ret, history, calls, pending, entered>>

\* lines 68-82 and 115: without a connection string nothing is tried; a
\* failure of the upload is caught and logged as a warning.
LogToBlob ==
    /\ pc = "log"
    /\ logCalls' = logCalls + 1
    /\ IF ~BLOB_CONN_STR
       THEN /\ blob' = blob
            /\ warned' = FALSE
       ELSE \E ok \in BOOLEAN :
              /\ blob' = IF ok THEN results ELSE blob
              /\ warned' = ~ok
    /\ pc' = "respond"
    /\ UNCHANGED <<config, runs, i, results, response, raised, locals, ret, history, calls, pending, entered>>

\* line 117
Respond ==
    /\ pc = "respond"
    /\ response' = Response200(results)
    /\ pc' = "done"
    /\ UNCHANGED <<config, runs, i, results, raised, locals, ret, history, calls, logging, pending, entered>>

Next ==
    \/ ParseRequest
    \/ LaunchBrowser
    \/ Goto
    \/ LoopHead
    \/ QuerySelector
    \/ DurationRead
    \/ PlayEval
    \/ WhileTest
    \/ EndedPoll
    \/ PositionRead
    \/ Sleep
    \/ ProbeRaises
    \/ AppendRecord
    \/ CloseBrowser
    \/ RunLevelFailure
    \/ LogToBlob
    \/ Respond

Spec == Init /\ [][Next]_vars

\* One trial with the wait bound non-positive, the default, or small, under
\* the default selector and with log persistence configured.
InitWait ==
    InitWith({-1, 0, 5, DefaultMaxWait} \cup (1..MaxWait),
             {<<"bad", 0>>, <<"int", 1>>}, {"video"}, {TRUE})

SpecWait == InitWait /\ [][Next]_vars

\* Requests for 0..MaxRuns trials under a wait bound of MaxWait, or for one
\* trial under the default bound.
InitRuns ==
    \/ InitWith({MaxWait}, {<<"int", n>> : n \in 0..MaxRuns}, {"video"}, {TRUE})
    \/ InitWith({0}, {<<"int", 1>>}, {"video"}, {TRUE})

SpecRuns == InitRuns /\ [][Next]_vars

\* The same requests with every probe call, sleep and step of main
\* returning: a step that can be taken is taken.
SpecFair == SpecRuns /\ WF_vars(Next)

\* ------------------------------------------------------------ properties
\* range(runs) makes no trial when runs is not positive.
TrialCount == IF runs > 0 THEN runs ELSE 0

Returned == pc = "append"

Contains(note, x) == \E k \in 1..Len(note) : note[k] = x


\* C1: while a run is under way the result list holds one record per
\* finished trial and no other, the record at position j has run = j, and a
\* run that completes without a run-level failure answers with exactly
\* TrialCount records, numbered 1..TrialCount in order.
C1_RecordsNumberedInRunOrder ==
    /\ Len(results) = Len(calls)
    /\ Len(results) = i
    /\ Len(results) <= TrialCount
    /\ \A j \in 1..Len(results) : results[j].run = j
    /\ pc \in {"query", "duration", "play", "while", "poll", "sleep", "readback", "append"}
         => Len(results) < TrialCount
    /\ response.status_code = 200 =>
         /\ Len(response.body) = TrialCount
         /\ \A j \in 1..TrialCount : response.body[j].run = j

\* C1 witness: a run of MaxRuns trials, one of which met a raising probe
\* call and one a missing element, has answered 200.
C1_Witness ==
    /\ response.status_code = 200
    /\ runs = MaxRuns
    /\ Len(response.body) = MaxRuns
    /\ response.body[1].status = "error"
    /\ response.body[MaxRuns].status = "no_video"


Outcomes == {"no_video", "play_failed", "played", "timeout", "error"}

\* A Python float that is >= 0.
NonNegative(d) == d[1] = "inf" \/ (d[1] = "num" /\ d[2] >= 0)

\* C2: whatever the page returns to the probe, the result of a monitor call
\* carries one outcome of the closed set; with played the duration is null
\* or a number >= 0, with every other outcome it is null.
C2_OutcomeAndDuration ==
    /\ ret.status \in Outcomes \cup {"none"}
    /\ Returned => ret.status \in Outcomes
    /\ ret.status = "played" => (ret.duration = Null \/ NonNegative(ret.duration))
    /\ ret.status # "played" => ret.duration = Null
    /\ \A j \in 1..Len(calls) :
         /\ calls[j].ret.status \in Outcomes
         /\ calls[j].ret.status = "played" =>
              (calls[j].ret.duration = Null \/ NonNegative(calls[j].ret.duration))
         /\ calls[j].ret.status # "played" => calls[j].ret.duration = Null

\* C2 witness: a call has returned played with the position 12.3 s after
\* one sleep.
C2_Witness ==
    /\ Returned
    /\ ret.status = "played"
    /\ ret.duration = Num(12300)
    /\ ops.sleep = 1


NoRaise == raisedAt = NotRaised

\* The bound the poll loop of the current configuration runs to.
Bound == IF MAX_WAIT_SECONDS > 0 THEN MAX_WAIT_SECONDS ELSE DefaultMaxWait

\* C3: in a monitor call whose play was accepted and in which no probe call
\* raises: a poll that sees ended after k sleeps has k < Bound, is the
\* (k+1)-th poll and ends the loop, and the call returns played after those
\* k sleeps and k+1 polls; when no poll sees ended the call returns timeout
\* with a null duration after Bound polls and Bound sleeps.
C3_PlayedAfterKSleepsElseTimeout ==
    /\ pc = "readback" =>
         /\ firstEnded = ops.sleep
         /\ firstEnded < Bound
         /\ ops.poll = firstEnded + 1
         /\ elapsed = firstEnded
    /\ (Returned /\ playCall = "accepted" /\ NoRaise /\ firstEnded >= 0) =>
         /\ ret.status = "played"
         /\ firstEnded < Bound
         /\ ops.sleep = firstEnded
         /\ ops.poll = firstEnded + 1
    /\ (Returned /\ playCall = "accepted" /\ NoRaise /\ firstEnded = -1) =>
         /\ ret.status = "timeout"
         /\ ret.duration = Null
         /\ ops.sleep = Bound
         /\ ops.poll = Bound

\* C3 witness: with a bound of MaxWait a call has returned played from the
\* last poll the bound allows.
C3_Witness ==
    /\ Returned
    /\ MAX_WAIT_SECONDS = MaxWait
    /\ playCall = "accepted"
    /\ ret.status = "played"
    /\ firstEnded = MaxWait - 1
    /\ ops.poll = MaxWait

\* A call whose polls never saw ended has returned timeout after the
\* default bound.
C3_TimeoutReached ==
    /\ Returned
    /\ MAX_WAIT_SECONDS = 0
    /\ ret.status = "timeout"
    /\ ops.sleep = DefaultMaxWait


\* C4: a monitor call whose existence check finds nothing returns no_video
\* with a null duration and a note made of "No element matching selector"
\* and the selector, having made the existence check and no duration read,
\* play call, ended poll, sleep or read-back; every such trial is recorded
\* as no_video with duration_sec null, so a run whose every existence check
\* finds nothing answers with TrialCount no_video records.
C4_NoVideoWithoutPolling ==
    /\ (pc \in {"append", "loop"} /\ exists = "no") =>
         /\ ret.status = "no_video"
         /\ ret.duration = Null
         /\ Contains(ret.note, "No element matching selector '")
         /\ Contains(ret.note, VIDEO_SELECTOR)
         /\ ops = [NoOps EXCEPT !.query = 1]
    /\ \A j \in 1..Len(calls) :
         calls[j].exists = "no" =>
            /\ results[j].status = "no_video"
            /\ results[j].duration_sec = Null
            /\ Contains(results[j].note, VIDEO_SELECTOR)
    /\ (response.status_code = 200 /\ \A j \in 1..Len(calls) : calls[j].exists = "no") =>
         /\ Len(response.body) = TrialCount
         /\ \A j \in 1..TrialCount :
              /\ response.body[j].status = "no_video"
              /\ response.body[j].duration_sec = Null

\* C4 witness: a run of MaxRuns trials under the selector "#player", every
\* existence check of which found nothing, has answered.
C4_Witness ==
    /\ response.status_code = 200
    /\ runs = MaxRuns
    /\ VIDEO_SELECTOR = "#player"
    /\ Len(calls) = MaxRuns
    /\ \A j \in 1..Len(calls) : calls[j].exists = "no"

\* C5: a monitor call in which the element exists and its play() throws
\* returns play_failed with a null duration, having made no ended poll, no
\* sleep and no read-back; every such trial is recorded as play_failed, so a
\* run in every trial of which play() throws answers with TrialCount
\* play_failed records.
C5_PlayFailedWithoutPolling ==
    /\ (pc \in {"append", "loop"} /\ playCall = "threw") =>
         /\ exists = "yes"
         /\ ret.status = "play_failed"
         /\ ret.duration = Null
         /\ ops.poll = 0 /\ ops.sleep = 0 /\ ops.read = 0
    /\ \A j \in 1..Len(calls) :
         calls[j].playCall = "threw" =>
            /\ results[j].status = "play_failed"
            /\ results[j].duration_sec = Null
    /\ (response.status_code = 200 /\ \A j \in 1..Len(calls) : calls[j].playCall = "threw") =>
         /\ Len(response.body) = TrialCount
         /\ \A j \in 1..TrialCount : response.body[j].status = "play_failed"

\* C5 witness: a run of MaxRuns trials, in each of which play() threw, has
\* answered.
C5_Witness ==
    /\ response.status_code = 200
    /\ runs = MaxRuns
    /\ Len(calls) = MaxRuns
    /\ \A j \in 1..Len(calls) : calls[j].playCall = "threw"


\* C6: a probe call of the monitor that raises (the existence check, the
\* duration read, the play evaluation, an ended poll or the read-back) ends
\* that call with outcome error, a null duration and a note that holds the
\* failure; main gets no failure from it: the trial is recorded as error,
\* the loop goes on, and the loop ends with TrialCount records.
C6_ProbeFailureBecomesErrorRecord ==
    /\ ~NoRaise =>
         /\ pc \in {"append", "loop"}
         /\ raisedAt[1] \in {"query", "duration", "play", "poll", "readback"}
         /\ ret.status = "error"
         /\ ret.duration = Null
         /\ Contains(ret.note, raisedAt[2])
         /\ response = NoResponse
         /\ ~raised
    /\ (pc = "loop" /\ ~NoRaise) =>
         /\ Len(results) = i
         /\ results[i].status = "error"
         /\ results[i].duration_sec = Null
         /\ Contains(results[i].note, raisedAt[2])
    /\ \A j \in 1..Len(calls) :
         calls[j].raised <=> results[j].status = "error"
    /\ pc \in {"close", "log", "respond"} => Len(results) = TrialCount
    /\ response.status_code = 200 => Len(response.body) = TrialCount

\* C6 witness: the read-back of the first trial raised, the second trial
\* returned played, and the run has answered with both records.
C6_Witness ==
    /\ response.status_code = 200
    /\ Len(response.body) = 2
    /\ calls[1].raised
    /\ calls[1].ret.note = NoteError("EvaluateError")
    /\ response.body[1].status = "error"
    /\ response.body[2].status = "played"

\* C7: main answers a request that has a url and readable runs either with
\* all TrialCount records and status 200 or with one run-level error text
\* and status 500 that holds no record; no answer is ever given that holds
\* fewer records than TrialCount, wherever the run-level failure strikes.
C7_FullReportOrRunLevelError ==
    /\ response # NoResponse => pc = "done"
    /\ (pc = "done" /\ url /\ ~raised) =>
         \/ /\ response.status_code = 200
            /\ response.kind = "list"
            /\ response.body = results
            /\ Len(response.body) = TrialCount
            /\ Len(calls) = TrialCount
         \/ /\ response.status_code = 500
            /\ response.kind = "text"
            /\ \E e \in Failures : response.body = <<"Error running Playwright: ", e>>
    /\ response.kind = "list" =>
         /\ response.status_code = 200
         /\ Len(response.body) = TrialCount

\* C7 witness: closing the browser failed after all MaxRuns trials, and the
\* answer is the run-level error.
C7_Witness ==
    /\ pc = "done"
    /\ url
    /\ runs = MaxRuns
    /\ Len(results) = MaxRuns
    /\ response.status_code = 500
    /\ response.kind = "text"


\* The position, or the duration, is a value the element really has.
Available(v) == v[1] \in {"num", "inf"}

\* C8: the duration returned with played is the position the read-back saw
\* whenever the element has one (a position of 0 too), else the element's
\* duration, and null only when the element has neither.
C8_PositionThenDuration ==
    (Returned /\ seen.read /\ NoRaise) =>
        /\ ret.status = "played"
        /\ ret.duration =
             IF seen.present /\ Available(seen.pos) THEN seen.pos
             ELSE IF seen.present /\ Available(seen.dur) THEN seen.dur
             ELSE Null

\* C8: what the code returns with played instead: the position when it is
\* not 0, else the duration when that is a number other than 0 (or
\* Infinity), else null.
C8_NonZeroPositionThenNonZeroDuration ==
    (Returned /\ seen.read /\ NoRaise) =>
        /\ ret.status = "played"
        /\ ret.duration =
             IF seen.present /\ Available(seen.pos) /\ seen.pos # Num(0) THEN seen.pos
             ELSE IF seen.present /\ Available(seen.dur) /\ seen.dur # Num(0) THEN seen.dur
             ELSE Null

\* C8: the read-back saw position 12.3 s and the call returned 12.3.
C8_Scenario ==
    /\ Returned
    /\ seen.read /\ seen.present /\ seen.pos = Num(12300)
    /\ ret.status = "played"
    /\ ret.duration = Num(12300)

\* C9: the poll loop runs to MAX_WAIT_SECONDS when that is positive and to
\* 600 when it is not, so a call under a non-positive bound polls, sleeps
\* and returns as one under 600 does; a timeout comes after that many polls
\* and sleeps and its note names the bound used.
C9_NonPositiveBoundIsDefault ==
    /\ pc \in {"while", "poll", "sleep", "readback"} =>
         /\ max_wait = (IF MAX_WAIT_SECONDS > 0 THEN MAX_WAIT_SECONDS ELSE DefaultMaxWait)
         /\ elapsed = ops.sleep
         /\ elapsed <= max_wait
    /\ (pc \in {"append", "loop"} /\ ret.status = "timeout") =>
         /\ MAX_WAIT_SECONDS <= 0 =>
              /\ ret.note = <<"Timed out after ", DefaultMaxWait, " seconds waiting for video to end.">>
              /\ ops.sleep = DefaultMaxWait /\ ops.poll = DefaultMaxWait
         /\ MAX_WAIT_SECONDS > 0 =>
              /\ ret.note = <<"Timed out after ", MAX_WAIT_SECONDS, " seconds waiting for video to end.">>
              /\ ops.sleep = MAX_WAIT_SECONDS /\ ops.poll = MAX_WAIT_SECONDS
    /\ ops.sleep <= (IF MAX_WAIT_SECONDS > 0 THEN MAX_WAIT_SECONDS ELSE DefaultMaxWait)

\* C9 witness: under a bound of 0 a call has timed out after 600 sleeps
\* with a note that names 600.
C9_Witness ==
    /\ Returned
    /\ MAX_WAIT_SECONDS = 0
    /\ ret.status = "timeout"
    /\ ops.sleep = DefaultMaxWait
    /\ ret.note[2] = DefaultMaxWait

\* C9: under a bound of 5 a call has timed out with a note that names 5.
C9_ScenarioFive ==
    /\ Returned
    /\ MAX_WAIT_SECONDS = 5
    /\ ret.status = "timeout"
    /\ ret.note[2] = 5


\* r is d rounded to 2 decimal places: a whole number of hundredths no
\* further than half a hundredth from d (Infinity stays Infinity).
RoundedTo2(r, d) ==
    \/ d[1] = "inf" /\ r = d
    \/ /\ d[1] = "num" /\ r[1] = "num"
       /\ r[2] % 10 = 0
       /\ r[2] - d[2] <= 5
       /\ d[2] - r[2] <= 5

\* C10: every record has the status and the note its monitor call returned;
\* its duration_sec is there exactly when the call returned a duration, and
\* is then that duration rounded to 2 decimal places and >= 0.  No monitor
\* result that can occur loses its duration in the record.
C10_RecordCarriesMonitorResult ==
    /\ Len(results) = Len(calls)
    /\ \A j \in 1..Len(results) :
         /\ results[j].status = calls[j].ret.status
         /\ results[j].note = calls[j].ret.note
         /\ results[j].duration_sec = Null <=> calls[j].ret.duration = Null
         /\ results[j].duration_sec # Null =>
              /\ RoundedTo2(results[j].duration_sec, calls[j].ret.duration)
              /\ NonNegative(results[j].duration_sec)
    /\ (Returned /\ ret.duration # Null) => PyTruthy(ret.duration)

\* C10 witness: a call returned the duration 12.345 s and its record holds
\* 12.35.
C10_Witness ==
    /\ Len(results) >= 1
    /\ calls[1].ret.status = "played"
    /\ calls[1].ret.duration = Num(12345)
    /\ results[1].duration_sec = Num(12350)

\* C10: a read-back that saw position 0 and duration 0 gave a null
\* duration, not 0.0.
C10_ZeroIsNeverReturned ==
    /\ Returned
    /\ seen.read /\ seen.present /\ seen.pos = Num(0) /\ seen.dur = Num(0)
    /\ ret.duration = Null



\* C11: a monitor call whose first ended poll finds the element ended stops
\* polling there, with no sleep made and elapsed = 0; when no probe call
\* raises it returns played after that one poll and zero sleeps, and its
\* trial is recorded as played. This holds for every trial of a run, the
\* first as well as the later ones, so consecutive trials that find the
\* element ended at their first poll are all recorded as played.
C11_EndedAtFirstPollIsPlayed ==
    /\ (lastPoll = "ended" /\ ops.poll = 1) =>
         /\ pc = "readback"
         /\ firstEnded = 0
         /\ ops.sleep = 0
         /\ elapsed = 0
    /\ (pc \in {"append", "loop"} /\ playCall = "accepted" /\ NoRaise /\ firstEnded = 0) =>
         /\ ret.status = "played"
         /\ ops.poll = 1
         /\ ops.sleep = 0
    /\ (pc = "loop" /\ playCall = "accepted" /\ NoRaise /\ firstEnded = 0) =>
         /\ Len(results) = i
         /\ results[i].status = "played"
         /\ results[i].run = i

\* C11 witness: the first trial of a run was recorded as played, and the
\* second trial finds the element ended at its first poll, before any sleep.
C11_Witness ==
    /\ pc = "readback"
    /\ i = 1
    /\ results[1].status = "played"
    /\ lastPoll = "ended"
    /\ ops.poll = 1
    /\ ops.sleep = 0

\* Two consecutive trials that saw ended at their first poll are both
\* recorded as played.
C11_TwoTrialsPlayed ==
    /\ pc = "loop"
    /\ i = 2
    /\ firstEnded = 0
    /\ NoRaise
    /\ results[1].status = "played"
    /\ results[2].status = "played"



MonitorPcs == {"query", "duration", "play", "while", "poll", "sleep", "readback"}

\* C12: the monitor is entered once per trial and never a second time for
\* the same trial: the number of monitor calls begun is the number of
\* records appended, plus one while a call is running or its record is
\* being appended. So the call of trial i+1 begins only when trial i has
\* returned and its record is in the list, at most one call is under way,
\* every outcome (played, timeout, error, play_failed, no_video) is recorded
\* as it came, and a run that answers 200 has made TrialCount calls.
C12_OneMonitorCallPerTrial ==
    /\ entered = Len(results) + (IF pc \in MonitorPcs \cup {"append"} THEN 1 ELSE 0)
    /\ Len(calls) = Len(results)
    /\ \A j \in 1..Len(results) :
         /\ results[j].run = j
         /\ results[j].status = calls[j].ret.status
    /\ pc \in MonitorPcs => i = Len(results) /\ i < runs
    /\ (pc = "done" /\ response.status_code = 200) => entered = TrialCount

\* C12 witness: a run of MaxRuns trials has answered after MaxRuns monitor
\* calls, its first trial recorded as timeout and its last as error.
C12_Witness ==
    /\ pc = "done"
    /\ response.status_code = 200
    /\ runs = MaxRuns
    /\ entered = MaxRuns
    /\ results[1].status = "timeout"
    /\ results[MaxRuns].status = "error"



\* C13: an ended poll that finds no element counts as ended: the loop stops
\* at that poll, which is the poll after the last sleep, and goes to the
\* read-back without sleeping; the call then returns played after no further
\* poll or sleep unless the read-back raises, and with a null duration when
\* the read-back finds no element either.
C13_AbsentAtPollIsEnded ==
    /\ [](lastPoll = "absent" =>
            /\ pc = "readback"
            /\ firstEnded = ops.sleep
            /\ ops.poll = ops.sleep + 1)
    /\ [][(lastPoll = "absent" /\ pc' = "append" /\ raisedAt' = NotRaised) =>
            /\ ret'.status = "played"
            /\ ops'.sleep = ops.sleep
            /\ ops'.poll = ops.poll
            /\ (~seen'.present => ret'.duration = Null)]_vars

\* C13 witness: after a sleep the poll finds no element and the loop has
\* stopped for the read-back.
C13_Witness ==
    /\ pc = "readback"
    /\ lastPoll = "absent"
    /\ ops.sleep = 1
    /\ ops.poll = 2



\* C14: when every probe call and every sleep returns, a monitor call makes
\* at most Bound ended polls and at most Bound sleeps, Bound being the wait
\* bound or 600 when that is not positive, whatever the page does (an ended
\* flag that stays false included), and the elapsed count never passes the
\* bound; so every call returns and a run of any number of trials reaches
\* its response.
C14_MonitorAndRunTerminate ==
    /\ [](/\ ops.poll <= Bound
          /\ ops.sleep <= Bound
          /\ (pc \in MonitorPcs \ {"query", "duration", "play"}) =>
               (max_wait = Bound /\ elapsed = ops.sleep /\ elapsed <= max_wait))
    /\ <>(pc = "done")

\* C14 witness: a run under a non-positive bound has answered with its
\* trial recorded as a timeout after 600 seconds.
C14_Witness ==
    /\ pc = "done"
    /\ response.status_code = 200
    /\ MAX_WAIT_SECONDS = 0
    /\ results[1].status = "timeout"
    /\ results[1].note[2] = DefaultMaxWait

\* A call under a non-positive bound has returned after the default 600
\* polls and 600 sleeps, none of which saw ended.
C14_DefaultBoundExhausted ==
    /\ Returned
    /\ MAX_WAIT_SECONDS = 0
    /\ ops.poll = DefaultMaxWait
    /\ ops.sleep = DefaultMaxWait
    /\ ret.status = "timeout"

\* A run of MaxRuns trials, none of which saw ended, has answered.
C14_AllTrialsTimedOut ==
    /\ pc = "done"
    /\ response.status_code = 200
    /\ Len(results) = MaxRuns
    /\ \A j \in 1..MaxRuns : results[j].status = "timeout"



\* C15: a play() call that returns at the call site is accepted whether or
\* not its promise rejects later: the call never returns play_failed and
\* makes at least one ended poll; while the rejecting promise is pending the
\* monitor is in its poll loop, and when it returns without a probe call
\* having raised, the outcome is played if a poll before the bound saw
\* ended and timeout after Bound polls otherwise.
C15_LateRejectionIsNotPlayFailed ==
    /\ [](rejected =>
            /\ playCall = "accepted"
            /\ pc \in {"while", "poll", "sleep", "readback"}
            /\ ret = NoRet)
    /\ []((Returned /\ playCall = "accepted") =>
            /\ ret.status # "play_failed"
            /\ ops.poll >= 1)
    /\ [][(rejected /\ pc' = "append" /\ raisedAt' = NotRaised) =>
            IF firstEnded' >= 0
            THEN /\ ret'.status = "played"
                 /\ firstEnded' < Bound
                 /\ ops'.poll = firstEnded' + 1
            ELSE /\ ret'.status = "timeout"
                 /\ ops'.poll = Bound]_vars

\* C15 witness: the promise of an accepted play() rejects, and the poll
\* loop has seen ended after one sleep.
C15_Witness ==
    /\ rejected
    /\ pc = "readback"
    /\ firstEnded = 1
    /\ ops.play = 1

\* The promise of an accepted play() rejects and the polls are used up
\* without one that saw ended.
C15_RejectedThenBoundReached ==
    /\ rejected
    /\ pc = "while"
    /\ elapsed = max_wait
    /\ firstEnded = -1



Did(f) == ops' = Bump(ops, f)

\* C16: within a trial the probe operations come in one order. The
\* existence check is the first operation, the duration read follows it,
\* play follows the duration read and is the only play of the trial; an
\* ended poll is made only after play and only when as many sleeps as polls
\* have been made, a sleep only after a poll that did not see ended, so
\* polls and sleeps alternate starting with a poll; the read-back is made
\* at most once, directly after a poll that returned ended. A call whose
\* existence check found the element and whose duration read did not raise
\* has invoked play exactly once, whatever the page looked like before.
C16_ProbeOperationOrder ==
    /\ [][/\ Did("query") => ops = NoOps
          /\ Did("dur") => ops = [NoOps EXCEPT !.query = 1]
          /\ Did("play") => ops = [NoOps EXCEPT !.query = 1, !.dur = 1]
          /\ Did("poll") =>
               /\ ops.play = 1
               /\ ops.poll = ops.sleep
               /\ ops.read = 0
          /\ Did("sleep") =>
               /\ ops.poll = ops.sleep + 1
               /\ ops.read = 0
               /\ lastPoll = "running"
          /\ Did("read") =>
               /\ ops.read = 0
               /\ ops.poll = ops.sleep + 1
               /\ lastPoll \in {"ended", "absent"}
               /\ firstEnded = ops.sleep
          /\ ops' # ops =>
               \/ ops' = NoOps
               \/ \E f \in {"query", "dur", "play", "poll", "sleep", "read"} : Did(f)]_vars
    /\ [](/\ pc \in {"while", "poll", "sleep", "readback"} => ops.play = 1
          /\ (Returned /\ exists = "yes" /\ raisedAt[1] \notin {"query", "duration"}) =>
               ops.play = 1
          /\ (Returned /\ (exists # "yes" \/ raisedAt[1] \in {"query", "duration"})) =>
               ops.play = 0)

\* C16 witness: the first trial was recorded as played; the second trial
\* has made its existence check, duration read and play, and its first
\* poll, made before any sleep, saw ended.
C16_Witness ==
    /\ i = 1
    /\ results[1].status = "played"
    /\ pc = "readback"
    /\ ops = [query |-> 1, dur |-> 1, play |-> 1, poll |-> 1, sleep |-> 0, read |-> 0]
    /\ lastPoll = "ended"

\* A call has returned after polls and sleeps in turn and one read-back.
C16_AlternationReached ==
    /\ Returned
    /\ ops = [query |-> 1, dur |-> 1, play |-> 1, poll |-> MaxWait, sleep |-> MaxWait - 1,
              read |-> 1]



\* What a call returns, told from what the page answered to the existence
\* check, the play call, the ended polls and the read-back, and from the
\* configuration; the answer to the duration read is not among them.
ExpectedRet ==
    IF raisedAt # NotRaised THEN RetError(raisedAt[2])
    ELSE IF exists = "no" THEN RetNoVideo(VIDEO_SELECTOR)
    ELSE IF playCall \in {"absent", "threw"} THEN RetPlayFailed
    ELSE IF firstEnded >= 0 THEN RetPlayed(JsPlayed(seen.present, seen.pos, seen.dur))
    ELSE RetTimeout(Bound)

\* The probe operations a returned call has made, told from the same
\* answers; a poll that raises is any of the first Bound polls.
ExpectedOps ==
    IF raisedAt[1] = "query" \/ exists = "no" THEN [NoOps EXCEPT !.query = 1]
    ELSE IF raisedAt[1] = "duration" THEN [NoOps EXCEPT !.query = 1, !.dur = 1]
    ELSE IF raisedAt[1] = "play" \/ playCall \in {"absent", "threw"}
         THEN [NoOps EXCEPT !.query = 1, !.dur = 1, !.play = 1]
    ELSE IF firstEnded >= 0
         THEN [query |-> 1, dur |-> 1, play |-> 1, poll |-> firstEnded + 1,
               sleep |-> firstEnded, read |-> 1]
    ELSE IF raisedAt[1] = "poll"
         THEN [query |-> 1, dur |-> 1, play |-> 1, poll |-> ops.sleep + 1,
               sleep |-> ops.sleep, read |-> 0]
    ELSE [query |-> 1, dur |-> 1, play |-> 1, poll |-> Bound, sleep |-> Bound, read |-> 0]

\* C17: the value of the duration read decides nothing. After the read the
\* operations made so far follow from the position in the loop and the
\* sleeps counted, and a returned call's status, duration, note and
\* operations are those told by ExpectedRet and ExpectedOps from the page's
\* other answers, so two calls that differ only in the value read make the
\* same operations and return the same result; a call that read the
\* "unknown" value -1 goes on to play and poll like any other.
C17_DurationReadDecidesNothing ==
    /\ pc \in {"while", "poll"} =>
         ops = [query |-> 1, dur |-> 1, play |-> 1, poll |-> elapsed, sleep |-> elapsed,
                read |-> 0]
    /\ pc \in {"sleep", "readback"} =>
         ops = [query |-> 1, dur |-> 1, play |-> 1, poll |-> elapsed + 1, sleep |-> elapsed,
                read |-> 0]
    /\ pc = "play" => ops = [NoOps EXCEPT !.query = 1, !.dur = 1]
    /\ pc \in {"play", "while", "poll", "sleep", "readback"} =>
         /\ ret = NoRet
         /\ raisedAt = NotRaised
         /\ duration # Null
    /\ Returned =>
         /\ ret = ExpectedRet
         /\ ops = ExpectedOps
         /\ ops.poll <= Bound

\* C17 witness: a call whose duration read returned the "unknown" value -1
\* has played, slept and polled, and a poll has seen ended.
C17_Witness ==
    /\ duration = Num(-1000)
    /\ pc = "readback"
    /\ firstEnded = 1
    /\ playCall = "accepted"

\* A call whose duration read returned 12.345 is at the same place after
\* the same operations.
C17_FiniteDurationTwin ==
    /\ duration = Num(12345)
    /\ pc = "readback"
    /\ firstEnded = 1
    /\ playCall = "accepted"



\* C18: an ended poll is made only while elapsed is below the bound, the
\* poll made at elapsed = e being poll number e + 1; once elapsed equals the
\* bound no poll follows the last sleep, and a call that returns timeout has
\* made exactly Bound polls and Bound sleeps and no read-back. An ended flag
\* is therefore seen at the latest by the poll made Bound - 1 seconds after
\* play, and one that turns true later is classified timeout.
C18_NoPollAtTheBound ==
    /\ pc = "poll" =>
         /\ elapsed < max_wait
         /\ ops.poll = elapsed
         /\ ops.sleep = elapsed
    /\ pc \in {"while", "poll", "sleep", "readback"} =>
         /\ max_wait = Bound
         /\ elapsed <= max_wait
         /\ ops.poll <= max_wait
    /\ (pc = "while" /\ elapsed = max_wait) =>
         /\ ops.poll = max_wait
         /\ ops.sleep = max_wait
         /\ firstEnded = -1
    /\ firstEnded < Bound
    /\ (Returned /\ ret.status = "timeout") =>
         /\ ops.poll = Bound
         /\ ops.sleep = Bound
         /\ ops.read = 0
         /\ firstEnded = -1
         /\ ret.duration = Null

\* C18 witness: under a bound of MaxWait a call has returned timeout after
\* MaxWait polls, the last of them before the last sleep.
C18_Witness ==
    /\ Returned
    /\ MAX_WAIT_SECONDS = MaxWait
    /\ ret.status = "timeout"
    /\ ops.poll = MaxWait
    /\ ops.sleep = MaxWait



\* C19: a call whose existence check found the element and whose play step
\* finds none returns play_failed with a null duration and the play_failed
\* note, raises nothing, and has made the existence check, the duration
\* read and the play call and no ended poll, sleep or read-back; its trial
\* is recorded as play_failed with duration_sec null.
C19_GoneAtPlayIsPlayFailed ==
    /\ (pc \in {"append", "loop"} /\ playCall = "absent") =>
         /\ exists = "yes"
         /\ ret = RetPlayFailed
         /\ ret.duration = Null
         /\ NoRaise
         /\ firstEnded = -1
         /\ ops = [NoOps EXCEPT !.query = 1, !.dur = 1, !.play = 1]
    /\ (pc = "loop" /\ playCall = "absent") =>
         /\ results[i].status = "play_failed"
         /\ results[i].duration_sec = Null
         /\ results[i].note = NotePlayFailed
    /\ playCall = "absent" => pc \in {"append", "loop"}

\* C19 witness: the existence check found the element, the play step found
\* none, and the call has returned play_failed.
C19_Witness ==
    /\ Returned
    /\ exists = "yes"
    /\ playCall = "absent"
    /\ ret.status = "play_failed"
    /\ ops.play = 1



\* C20: log_to_blob is called at most once in a run, and only when the loop
\* has made all TrialCount trials and the browser is closed; a run that
\* ends in a run-level failure, a 400 answer or an unreadable runs value
\* never calls it. Whatever the call did (uploaded the results, found no
\* connection string, or caught an upload failure), the run answers 200
\* with the TrialCount records the trials produced, unchanged.
C20_LogOnceAndHarmless ==
    /\ logCalls <= 1
    /\ pc = "log" =>
         /\ logCalls = 0
         /\ Len(results) = TrialCount
         /\ entered = TrialCount
    /\ logCalls = 1 =>
         /\ pc \in {"respond", "done"}
         /\ ~raised
         /\ response.status_code \in {0, 200}
         /\ Len(results) = TrialCount
         /\ entered = TrialCount
         /\ \A j \in 1..TrialCount :
              /\ results[j].run = j
              /\ results[j].status = calls[j].ret.status
              /\ results[j].note = calls[j].ret.note
         /\ pc = "done" => response = Response200(results)
    /\ (pc = "done" /\ (raised \/ response.status_code \in {400, 500})) =>
         /\ logCalls = 0
         /\ blob = <<>>
         /\ ~warned
    /\ (pc = "done" /\ response.status_code = 200) => logCalls = 1
    /\ warned => (BLOB_CONN_STR /\ blob = <<>> /\ logCalls = 1)
    /\ blob # <<>> => (BLOB_CONN_STR /\ blob = results /\ ~warned)

\* C20 witness: the upload failed inside log_to_blob after MaxRuns trials,
\* and the run has answered 200 with the MaxRuns records.
C20_Witness ==
    /\ pc = "done"
    /\ warned
    /\ logCalls = 1
    /\ runs = MaxRuns
    /\ response.status_code = 200
    /\ Len(response.body) = MaxRuns

\* Without a connection string the run has answered 200 with its records
\* and nothing was uploaded.
C20_NoConnectionString ==
    /\ pc = "done"
    /\ ~BLOB_CONN_STR
    /\ logCalls = 1
    /\ response.status_code = 200
    /\ Len(response.body) = MaxRuns
    /\ blob = <<>>

\* Closing the browser failed after MaxRuns trials: nothing was logged.
C20_RunLevelFailureSkipsLog ==
    /\ pc = "done"
    /\ response.status_code = 500
    /\ Len(results) = MaxRuns
    /\ runs = MaxRuns
    /\ logCalls = 0

====
